---- MODULE Spec2Model ----
(***************************************************************************)
(* Model of iron-carrier's file system layer (src/src/fs.rs): FileInfo,    *)
(* walk_path, is_local_file_newer, delete_file, get_temp_file and          *)
(* flush_temp_file, over an explicit model of the directory tree.          *)
(*                                                                         *)
(* A file name is a sequence of tokens; the token "." is the dot and no    *)
(* other token holds a dot or ends with "ironcarrier" except the token     *)
(* "ironcarrier" itself.  A path is a sequence of file names.  A           *)
(* SystemTime is an integer number of ticks since the Unix epoch           *)
(* (negative: before the epoch), TicksPerSec ticks to the second.          *)
(*                                                                         *)
(* The specifications share the variables: SpecScan (walk_path over a      *)
(* family of trees and deletion logs, and rescans after a recorded         *)
(* deletion), SpecWrite (one writer, a concurrent reader, a scan after),   *)
(* SpecCalls (is_local_file_newer and delete_file), SpecMutate (one call   *)
(* of get_absolute_path, delete_file, move_file, get_temp_file or          *)
(* flush_temp_file), SpecHash (calculate_hash of two snapshots),           *)
(* SpecHashAll (get_hash_for_alias) and SpecTwoWriters (two writers whose  *)
(* steps interleave).                                                      *)
(***************************************************************************)
EXTENDS Integers, Sequences, FiniteSets, TLC

VARIABLES
    fs,          \* the directory tree: absolute path -> node
    log,         \* DeletionTracker log of the root: relative path -> SystemTime
    spc,         \* walk_path: position of the running scan
    stack,       \* walk_path: `paths`, the directories still to read
    entries,     \* walk_path: entries of the directory being read, not yet returned
    files,       \* walk_path: `files`, the records collected so far
    snapshot,    \* result of the last walk_path call
    prevSnapshot,\* snapshot taken before the last recorded deletion
    delPath,     \* relative path of the last recorded deletion
    ndel,        \* number of recorded deletions so far
    wpc,         \* the writer: position between get_temp_file and flush_temp_file
    wrec,        \* the FileInfo the writer and the reader work on
    fs0,         \* the tree before the operation under way (or the last one)
    observed,    \* what the reader last saw at the writer's final path
    call,        \* the last completed call of a function of the module
    scanRoot,    \* walk_path: the argument `root_path` of the running scan
    scanAlias,   \* walk_path: the argument `alias` of the running scan
    alias_path,  \* get_hash_for_alias: its argument, alias -> root
    pending,     \* get_hash_for_alias: aliases the loop has not reached yet
    result,      \* get_hash_for_alias: `result`, alias -> hash so far
    hret,        \* get_hash_for_alias: what the call returned
    ws           \* concurrent writers: writer -> its record, position and handle

scanArgs == <<scanRoot, scanAlias>>

scanVars == <<spc, stack, entries, files, snapshot, scanArgs>>

delVars == <<prevSnapshot, delPath, ndel>>

writeVars == <<wpc, wrec, fs0, observed>>

hashVars == <<alias_path, pending, result, hret>>

vars == <<fs, log, scanVars, delVars, writeVars, call, hashVars, ws>>

(***************************************************************************)
(* Bounds                                                                  *)
(***************************************************************************)
\* largest SystemTime (in ticks) of the initial trees and logs
MaxTick == 3
\* number of deletions recorded in one behaviour
MaxDeletes == 1

(***************************************************************************)
(* Option<u64>, SystemTime                                                 *)
(***************************************************************************)
\* Option::None of an Option<u64> field (u64 values are >= 0)
None == -1

IsSome(o) == o # None

\* sub-second resolution of SystemTime: ticks per second
TicksPerSec == 2

\* SystemTime::UNIX_EPOCH + Duration::from_secs(secs)
FromSecs(secs) == secs * TicksPerSec

\* fn system_time_to_secs: None before the epoch, else whole seconds
system_time_to_secs(time) == IF time < 0 THEN None ELSE time \div TicksPerSec

(***************************************************************************)
(* File names and paths                                                    *)
(***************************************************************************)
Sentinel == "ironcarrier"

Dot == "."

\* byte order of the first byte of each token ("." < "a" < "b" < "d" < "i" < "m" < "r" < "t")
TokRank(t) ==
    CASE t = "." -> 1
      [] t = "a" -> 2
      [] t = "b" -> 3
      [] t = "d" -> 4
      [] t = "ironcarrier" -> 5
      [] t = "md" -> 6
      [] t = "r" -> 7
      [] t = "txt" -> 8

nTxt == <<"a", ".", "txt">>
nB == <<"b", ".", "txt">>
nA == <<"a">>
nTmp == <<"a", ".", "ironcarrier">>
nDotS == <<".", "ironcarrier">>
nAS == <<"a", "ironcarrier">>
nD == <<"d">>
nDS == <<"d", ".", "ironcarrier">>
nMd == <<"a", ".", "md">>

\* the alias root directory
Root == << <<"r">> >>

\* OsStr order of two file names: byte-wise, a proper prefix first
RECURSIVE NameLess(_, _)
NameLess(a, b) ==
    IF b = <<>> THEN FALSE
    ELSE IF a = <<>> THEN TRUE
    ELSE IF TokRank(Head(a)) < TokRank(Head(b)) THEN TRUE
    ELSE IF TokRank(Head(b)) < TokRank(Head(a)) THEN FALSE
    ELSE NameLess(Tail(a), Tail(b))

\* Path::cmp: component by component, a proper prefix first
RECURSIVE PathLess(_, _)
PathLess(p, q) ==
    IF q = <<>> THEN FALSE
    ELSE IF p = <<>> THEN TRUE
    ELSE IF NameLess(Head(p), Head(q)) THEN TRUE
    ELSE IF NameLess(Head(q), Head(p)) THEN FALSE
    ELSE PathLess(Tail(p), Tail(q))

IsPrefix(p, q) == Len(p) <= Len(q) /\ SubSeq(q, 1, Len(p)) = p

Parent(p) == SubSeq(p, 1, Len(p) - 1)

FileName(p) == p[Len(p)]

\* Path::strip_prefix(root_path)
StripPrefix(p, root) == SubSeq(p, Len(root) + 1, Len(p))

\* index of the last dot of a file name, 0 if none
LastDot(name) ==
    LET ds == {i \in 1..Len(name) : name[i] = Dot}
    IN  IF ds = {} THEN 0 ELSE CHOOSE i \in ds : \A j \in ds : j <= i

\* Path::file_stem: the name up to its last dot; the whole name when it has
\* no dot or only a leading one
FileStem(name) ==
    IF LastDot(name) <= 1 THEN name ELSE SubSeq(name, 1, LastDot(name) - 1)

\* PathBuf::set_extension: the file stem, a dot, the new extension
SetExtension(p, ext) ==
    [p EXCEPT ![Len(p)] = FileStem(FileName(p)) \o <<Dot, ext>>]

\* mutant: only the file named ".ironcarrier" is special
IsSpecialFileExact(path) == FileName(path) = <<Dot, Sentinel>>

\* fn is_special_file: the file name ends with "ironcarrier"
is_special_file(path) ==
    LET name == FileName(path)
    IN  Len(name) > 0 /\ name[Len(name)] = Sentinel

(***************************************************************************)
(* The directory tree                                                      *)
(***************************************************************************)
DirNode == [kind |-> "dir", content |-> <<>>, mtime |-> 0, ctime |-> 0]

FileNode(content, mtime, ctime) ==
    [kind |-> "file", content |-> content, mtime |-> mtime, ctime |-> ctime]

\* Path::exists
Exists(tree, p) == p \in DOMAIN tree

\* Path::is_dir
IsDir(tree, p) == Exists(tree, p) /\ tree[p].kind = "dir"

IsFile(tree, p) == Exists(tree, p) /\ tree[p].kind = "file"

\* the entries read_dir(p) returns
Children(tree, p) == {q \in DOMAIN tree : Len(q) = Len(p) + 1 /\ IsPrefix(p, q)}

\* the tree without p and everything below it
Without(tree, p) ==
    [q \in {x \in DOMAIN tree : ~IsPrefix(p, x)} |-> tree[q]]

\* the tree with node n at p
With(tree, p, n) ==
    [q \in DOMAIN tree \cup {p} |-> IF q = p THEN n ELSE tree[q]]

\* the root and every proper ancestor of p
Ancestors(p) == {SubSeq(p, 1, k) : k \in 1..(Len(p) - 1)}

\* the tree whose files are the absolute paths F, each of content <<0>> and
\* modified and created at time m, and whose directories are their
\* ancestors and the root
MkTree(F, m) ==
    LET dirs == {Root} \cup UNION {Ancestors(p) : p \in F}
    IN  [q \in dirs \cup F |-> IF q \in F THEN FileNode(<<0>>, m, m) ELSE DirNode]

(***************************************************************************)
(* FileInfo                                                                *)
(***************************************************************************)
\* FileInfo::new
FileInfoNew(alias, relative_path, metadata) ==
    [alias |-> alias,
     path |-> relative_path,
     created_at |-> system_time_to_secs(metadata.ctime),
     modified_at |-> system_time_to_secs(metadata.mtime),
     size |-> Len(metadata.content),
     deleted_at |-> None]

\* FileInfo::new_deleted, called with Some(deleted_at)
NewDeleted(alias, relative_path, deleted_at) ==
    [alias |-> alias,
     path |-> relative_path,
     created_at |-> None,
     modified_at |-> None,
     size |-> None,
     deleted_at |-> system_time_to_secs(deleted_at)]

\* one step of a stable sort: x goes after every record not greater than it
InsertSorted(sorted, x) ==
    LET k == Cardinality({i \in 1..Len(sorted) : ~PathLess(x.path, sorted[i].path)})
    IN  SubSeq(sorted, 1, k) \o <<x>> \o SubSeq(sorted, k + 1, Len(sorted))

RECURSIVE SortFrom(_, _)
SortFrom(sorted, rest) ==
    IF rest = <<>> THEN sorted
    ELSE SortFrom(InsertSorted(sorted, Head(rest)), Tail(rest))

\* mutant: the records are returned in the order they were collected
SortFilesNone(fl) == fl

\* files.sort(): stable, by path (impl Ord for FileInfo)
SortFiles(fl) == SortFrom(<<>>, fl)

(***************************************************************************)
(* walk_path                                                               *)
(***************************************************************************)
Alias == "a"

NoSnapshot == [st |-> "none", files |-> <<>>]

\* Err(e): the `?` returns of walk_path
ScanErr == [st |-> "err", files |-> <<>>]

\* Ok(files)
ScanOk(fl) == [st |-> "ok", files |-> fl]

\* every order in which the entries of a HashMap can be iterated
Orders(S) ==
    {o \in [1..Cardinality(S) -> S] : \A i, j \in 1..Cardinality(S) : o[i] = o[j] => i = j}

\* walk_path(root_path, alias) up to the loop: paths = vec![root_path], and
\* files seeded with one new_deleted record per entry of
\* deletion_tracker.get_files()
WalkPathBegin(root_path, al) ==
    /\ spc = "idle"
    /\ \E o \in Orders(DOMAIN log) :
          files' = [i \in 1..Len(o) |-> NewDeleted(al, o[i], log[o[i]])]
    /\ stack' = <<root_path>>
    /\ scanRoot' = root_path
    /\ scanAlias' = al
    /\ entries' = {}
    /\ spc' = "walk"
    /\ snapshot' = NoSnapshot

\* walk_path(Root, "a") is called
ScanBegin ==
    /\ WalkPathBegin(Root, Alias)
    /\ UNCHANGED <<fs, log, delVars, writeVars, call, hashVars, ws>>

\* while let Some(path) = paths.pop() { entries = fs::read_dir(path) ...
ScanPop ==
    /\ spc = "walk" /\ entries = {} /\ stack # <<>>
    /\ IsDir(fs, stack[Len(stack)])
    /\ entries' = Children(fs, stack[Len(stack)])
    /\ stack' = SubSeq(stack, 1, Len(stack) - 1)
    /\ UNCHANGED <<fs, log, spc, files, snapshot, scanArgs, delVars, writeVars, call, hashVars, ws>>

\* mutant: directories are not descended into
ScanVisitFlat(e) ==
    IF is_special_file(e) \/ IsDir(fs, e) THEN
        UNCHANGED <<stack, files>>
    ELSE
        /\ files' = Append(files, FileInfoNew(scanAlias, StripPrefix(e, scanRoot), fs[e]))
        /\ UNCHANGED stack

\* the body of the inner loop for the entry e
ScanVisit(e) ==
    IF is_special_file(e) THEN
        UNCHANGED <<stack, files>>
    ELSE IF IsDir(fs, e) THEN
        /\ stack' = Append(stack, e)
        /\ UNCHANGED files
    ELSE
        /\ files' = Append(files, FileInfoNew(scanAlias, StripPrefix(e, scanRoot), fs[e]))
        /\ UNCHANGED stack

\* while let Some(entry) = entries.next_entry() { ... }: the directory's
\* entries come in any order
ScanEntry ==
    /\ spc = "walk" /\ entries # {}
    /\ \E e \in entries :
          /\ entries' = entries \ {e}
          /\ ScanVisit(e)
    /\ UNCHANGED <<fs, log, spc, snapshot, scanArgs, delVars, writeVars, call, hashVars, ws>>

\* mutant: a failure ends the scan with the records collected so far
ScanFailPartial ==
    /\ spc = "walk"
    /\ spc' = "idle"
    /\ snapshot' = ScanOk(SortFiles(files))
    /\ stack' = <<>>
    /\ entries' = {}
    /\ files' = <<>>
    /\ UNCHANGED <<fs, log, scanArgs, delVars, writeVars, call, hashVars, ws>>

\* read_dir, next_entry or metadata fails: the `?` returns the error
ScanFail ==
    /\ spc = "walk"
    /\ spc' = "idle"
    /\ snapshot' = ScanErr
    /\ stack' = <<>>
    /\ entries' = {}
    /\ files' = <<>>
    /\ UNCHANGED <<fs, log, scanArgs, delVars, writeVars, call, hashVars, ws>>

\* files.sort(); return Ok(files)
ScanFinish ==
    /\ spc = "walk" /\ entries = {} /\ stack = <<>>
    /\ spc' = "idle"
    /\ snapshot' = ScanOk(SortFiles(files))
    /\ files' = <<>>
    /\ UNCHANGED <<fs, log, stack, entries, scanArgs, delVars, writeVars, call, hashVars, ws>>

\* the time the deletion tracker records: the first whole second after
\* every initial time
RecordTime == ((MaxTick \div TicksPerSec) + 1) * TicksPerSec

\* a live file is removed and the deletion tracker records its tombstone
DeleteAndRecord ==
    /\ spc = "idle" /\ snapshot.st = "ok" /\ ndel < MaxDeletes
    /\ \E p \in DOMAIN fs :
          /\ IsFile(fs, p)
          /\ fs' = Without(fs, p)
          /\ log' = With(log, StripPrefix(p, Root), RecordTime)
          /\ delPath' = StripPrefix(p, Root)
    /\ prevSnapshot' = snapshot
    /\ snapshot' = NoSnapshot
    /\ ndel' = ndel + 1
    /\ UNCHANGED <<spc, stack, entries, files, scanArgs, writeVars, call, hashVars, ws>>

(***************************************************************************)
(* Config and FileInfo::get_absolute_path                                  *)
(***************************************************************************)
\* a root directory that does not exist
MissingRoot == << <<"m">> >>

\* config.paths: alias "a" is the root, alias "b" a directory that does not
\* exist; any other alias is not configured
ConfigPaths == ("a" :> Root) @@ ("b" :> MissingRoot)

AliasNotAvailable(alias) == [ok |-> FALSE, err |-> <<"AliasNotAvailable", alias>>, path |-> <<>>]

\* mutant: the root is not canonicalized
GetAbsolutePathNoCanon(rec, tree) ==
    IF rec.alias \notin DOMAIN ConfigPaths THEN AliasNotAvailable(rec.alias)
    ELSE [ok |-> TRUE, err |-> <<>>, path |-> ConfigPaths[rec.alias] \o rec.path]

\* FileInfo::get_absolute_path: the canonical root extended by the
\* components of the relative path
GetAbsolutePath(rec, tree) ==
    IF rec.alias \notin DOMAIN ConfigPaths THEN AliasNotAvailable(rec.alias)
    ELSE IF ~Exists(tree, ConfigPaths[rec.alias]) THEN AliasNotAvailable(rec.alias)
    ELSE [ok |-> TRUE, err |-> <<>>, path |-> ConfigPaths[rec.alias] \o rec.path]

(***************************************************************************)
(* File system calls                                                       *)
(***************************************************************************)
\* the clock while the model runs: later than every initial time
Now == MaxTick + 1

\* no error
NoErr == <<>>

\* std::io::Error
IoError == <<"io">>

IoErr(tree) == [ok |-> FALSE, tree |-> tree, err |-> IoError]

IoOk(tree) == [ok |-> TRUE, tree |-> tree, err |-> NoErr]

\* tokio::fs::create_dir_all(p): fails when p or an ancestor is a file
CreateDirAll(tree, p) ==
    LET chain == Ancestors(p) \cup {p}
    IN  IF \E q \in chain : IsFile(tree, q) THEN IoErr(tree)
        ELSE IoOk([q \in DOMAIN tree \cup chain |->
                      IF q \in DOMAIN tree THEN tree[q] ELSE DirNode])

\* File::create(p): creates or truncates; fails on a directory or when
\* the parent is not a directory
FileCreate(tree, p) ==
    IF IsDir(tree, p) \/ ~IsDir(tree, Parent(p)) THEN IoErr(tree)
    ELSE IoOk(With(tree, p,
                   FileNode(<<>>, Now, IF Exists(tree, p) THEN tree[p].ctime ELSE Now)))

\* the subtree at src moved to dst
Moved(tree, src, dst) ==
    LET keep == {q \in DOMAIN tree : ~IsPrefix(src, q) /\ ~IsPrefix(dst, q)}
        sub == {q \in DOMAIN tree : IsPrefix(src, q)}
        To(q) == dst \o SubSeq(q, Len(src) + 1, Len(q))
        From(q) == src \o SubSeq(q, Len(dst) + 1, Len(q))
    IN  [q \in keep \cup {To(x) : x \in sub} |->
            IF q \in keep THEN tree[q] ELSE tree[From(q)]]

\* tokio::fs::rename(src, dst): an atomic replace
Rename(tree, src, dst) ==
    IF ~Exists(tree, src) THEN IoErr(tree)
    ELSE IF src = dst THEN IoOk(tree)
    ELSE IF ~IsDir(tree, Parent(dst)) \/ IsPrefix(src, dst) THEN IoErr(tree)
    ELSE IF IsFile(tree, src) /\ IsDir(tree, dst) THEN IoErr(tree)
    ELSE IF IsDir(tree, src) /\ IsFile(tree, dst) THEN IoErr(tree)
    ELSE IF IsDir(tree, src) /\ Children(tree, dst) # {} THEN IoErr(tree)
    ELSE IoOk(Moved(tree, src, dst))

\* filetime::set_file_mtime(p, t)
SetFileMtime(tree, p, t) ==
    IF ~Exists(tree, p) THEN IoErr(tree)
    ELSE IoOk([tree EXCEPT ![p].mtime = t])

(***************************************************************************)
(* get_temp_file, flush_temp_file                                          *)
(***************************************************************************)
\* largest number of chunks a writer streams into its temp file
MaxChunks == 2

\* the content a writer streams: chunks 1, 2, ...
NewContent == [i \in 1..MaxChunks |-> i]

\* mutant: the extension is not replaced
TempPathSame(final) == final

\* temp_path.set_extension("ironcarrier")
TempPath(final) == SetExtension(final, Sentinel)

\* fn get_temp_file: the tree after the call and whether it returned Ok
GetTempFile(rec, tree) ==
    LET abs == GetAbsolutePath(rec, tree)
        temp == TempPath(abs.path)
        made == IF ~Exists(tree, Parent(temp)) THEN CreateDirAll(tree, Parent(temp))
                ELSE IoOk(tree)
    IN  IF ~abs.ok THEN [ok |-> FALSE, tree |-> tree, err |-> abs.err]
        ELSE IF ~made.ok THEN made
        ELSE FileCreate(made.tree, temp)

\* mutant: the modification time is not set
FlushTempFileNoMtime(rec, tree) ==
    LET abs == GetAbsolutePath(rec, tree)
        moved == Rename(tree, TempPath(abs.path), abs.path)
    IN  IF ~abs.ok THEN [st |-> "err", tree |-> tree, err |-> abs.err]
        ELSE IF ~moved.ok THEN [st |-> "err", tree |-> tree, err |-> moved.err]
        ELSE [st |-> "ok", tree |-> moved.tree, err |-> NoErr]

\* fn flush_temp_file: the tree after the call and how it returned: Ok,
\* Err, or the panic of modified_at.unwrap() on None
FlushTempFile(rec, tree) ==
    LET abs == GetAbsolutePath(rec, tree)
        moved == Rename(tree, TempPath(abs.path), abs.path)
    IN  IF ~abs.ok THEN [st |-> "err", tree |-> tree, err |-> abs.err]
        ELSE IF ~moved.ok THEN [st |-> "err", tree |-> tree, err |-> moved.err]
        ELSE IF rec.modified_at = None THEN
            [st |-> "panic", tree |-> moved.tree, err |-> NoErr]
        ELSE LET timed == SetFileMtime(moved.tree, abs.path, FromSecs(rec.modified_at))
             IN  [st |-> IF timed.ok THEN "ok" ELSE "err", tree |-> timed.tree,
                  err |-> timed.err]

\* every way flush_temp_file can return: as above, or, the file system
\* refusing set_file_mtime (the file belongs to another user), with that
\* error once the rename is done
FlushTempFileOutcomes(rec, tree) ==
    LET abs == GetAbsolutePath(rec, tree)
        moved == Rename(tree, TempPath(abs.path), abs.path)
    IN  {FlushTempFile(rec, tree)} \cup
            IF abs.ok /\ moved.ok /\ rec.modified_at # None
            THEN {[st |-> "err", tree |-> moved.tree, err |-> IoError]}
            ELSE {}

\* what a reader of path p sees: nothing, a directory, or a file's content
Obs(tree, p) ==
    IF ~Exists(tree, p) THEN <<"absent">>
    ELSE IF IsDir(tree, p) THEN <<"dir">>
    ELSE <<"file", tree[p].content>>

Unread == [at |-> "never", saw |-> <<"unread">>]

\* the writer calls get_temp_file(wrec)
GetTempFileCall ==
    /\ wpc = "idle"
    /\ LET r == GetTempFile(wrec, fs)
       IN  /\ fs' = r.tree
           /\ wpc' = IF r.ok THEN "open" ELSE "open_err"
    /\ fs0' = fs
    /\ UNCHANGED <<log, scanVars, delVars, wrec, observed, call, hashVars, ws>>

\* the writer streams the next chunk through the handle get_temp_file returned
WriteChunk ==
    /\ wpc = "open"
    /\ LET temp == TempPath(GetAbsolutePath(wrec, fs).path)
           n == Len(fs[temp].content)
       IN  /\ n < MaxChunks
           /\ fs' = [fs EXCEPT ![temp].content = Append(@, n + 1), ![temp].mtime = Now]
    /\ UNCHANGED <<log, scanVars, delVars, writeVars, call, hashVars, ws>>

\* the writer, all chunks streamed, calls flush_temp_file(wrec)
FlushTempFileCall ==
    /\ wpc = "open"
    /\ fs[TempPath(GetAbsolutePath(wrec, fs).path)].content = NewContent
    /\ \E r \in FlushTempFileOutcomes(wrec, fs) :
          /\ fs' = r.tree
          /\ wpc' = IF r.st = "ok" THEN "done" ELSE r.st
    /\ UNCHANGED <<log, scanVars, delVars, wrec, fs0, observed, call, hashVars, ws>>

\* the write is cancelled before flush_temp_file: the handle is dropped
Cancel ==
    /\ wpc = "open"
    /\ wpc' = "cancelled"
    /\ UNCHANGED <<fs, log, scanVars, delVars, wrec, fs0, observed, call, hashVars, ws>>

\* a concurrent reader reads the writer's final path
ReadFinal ==
    /\ wpc \in {"idle", "open", "done"}
    /\ GetAbsolutePath(wrec, fs).ok
    /\ observed' = [at |-> wpc, saw |-> Obs(fs, GetAbsolutePath(wrec, fs).path)]
    /\ UNCHANGED <<fs, log, scanVars, delVars, wpc, wrec, fs0, call, hashVars, ws>>

\* walk_path is called once the write is over
ScanAfterWrite ==
    /\ wpc \in {"cancelled", "done"}
    /\ snapshot.st = "none"
    /\ ScanBegin

(***************************************************************************)
(* is_local_file_newer, delete_file                                        *)
(***************************************************************************)
\* largest number of times delete_file is applied to one record in a row
MaxRepeat == 2

\* mutant: a local file of the same second counts as newer
IsLocalFileNewerOrSame(rec, tree) ==
    LET abs == GetAbsolutePath(rec, tree)
    IN  IF IsSome(rec.deleted_at) THEN "true"
        ELSE IF ~abs.ok THEN "false"
        ELSE IF ~Exists(tree, abs.path) THEN "false"
        ELSE IF system_time_to_secs(tree[abs.path].mtime) = None THEN "false"
        ELSE IF rec.modified_at = None THEN "panic"
        ELSE IF system_time_to_secs(tree[abs.path].mtime) >= rec.modified_at THEN "true"
        ELSE "false"

\* mutant: the path is resolved before deleted_at is looked at
IsLocalFileNewerResolved(rec, tree) ==
    LET abs == GetAbsolutePath(rec, tree)
    IN  IF ~abs.ok THEN "false"
        ELSE IF ~Exists(tree, abs.path) THEN "false"
        ELSE IF IsSome(rec.deleted_at) THEN "true"
        ELSE IF system_time_to_secs(tree[abs.path].mtime) = None THEN "false"
        ELSE IF rec.modified_at = None THEN "panic"
        ELSE IF system_time_to_secs(tree[abs.path].mtime) > rec.modified_at THEN "true"
        ELSE "false"

\* FileInfo::is_local_file_newer: "true", "false", or the panic of
\* modified_at.unwrap() on None
IsLocalFileNewer(rec, tree) ==
    LET abs == GetAbsolutePath(rec, tree)
    IN  IF IsSome(rec.deleted_at) THEN "true"
        ELSE IF ~abs.ok THEN "false"
        ELSE IF ~Exists(tree, abs.path) THEN "false"
        ELSE IF system_time_to_secs(tree[abs.path].mtime) = None THEN "false"
        ELSE IF rec.modified_at = None THEN "panic"
        ELSE IF system_time_to_secs(tree[abs.path].mtime) > rec.modified_at THEN "true"
        ELSE "false"

\* tokio::fs::remove_file(p)
RemoveFile(tree, p) == [q \in DOMAIN tree \ {p} |-> tree[q]]

\* tokio::fs::remove_dir_all(p)
RemoveDirAll(tree, p) == Without(tree, p)

\* mutant: a path that does not exist is an error
DeleteFileStrict(rec, tree) ==
    LET abs == GetAbsolutePath(rec, tree)
    IN  IF ~abs.ok THEN [st |-> "err", tree |-> tree, err |-> abs.err]
        ELSE IF ~Exists(tree, abs.path) THEN [st |-> "err", tree |-> tree, err |-> IoError]
        ELSE IF IsDir(tree, abs.path) THEN
            [st |-> "ok", tree |-> RemoveDirAll(tree, abs.path), err |-> NoErr]
        ELSE [st |-> "ok", tree |-> RemoveFile(tree, abs.path), err |-> NoErr]

\* fn delete_file: the tree after the call and whether it returned Ok
DeleteFile(rec, tree) ==
    LET abs == GetAbsolutePath(rec, tree)
    IN  IF ~abs.ok THEN [st |-> "err", tree |-> tree, err |-> abs.err]
        ELSE IF ~Exists(tree, abs.path) THEN [st |-> "ok", tree |-> tree, err |-> NoErr]
        ELSE IF IsDir(tree, abs.path) THEN
            [st |-> "ok", tree |-> RemoveDirAll(tree, abs.path), err |-> NoErr]
        ELSE [st |-> "ok", tree |-> RemoveFile(tree, abs.path), err |-> NoErr]

(***************************************************************************)
(* Scanning: every tree and log of the families below is scanned           *)
(***************************************************************************)
ScanFiles ==
    {Root \o <<nTxt>>, Root \o <<nB>>, Root \o <<nTmp>>,
     Root \o <<nD, nTxt>>, Root \o <<nDS, nTxt>>}

LogPaths == {<<nTxt>>, <<nTmp>>, <<nD, nTxt>>}

\* the deletion tracker stores whole seconds since the epoch
LogTimes == {x \in 0..MaxTick : x % TicksPerSec = 0}

NoRec == [alias |-> "", path |-> <<>>, modified_at |-> None, created_at |-> None,
          size |-> None, deleted_at |-> None]

NoCall == [op |-> "none", rec |-> NoRec, dest |-> NoRec, result |-> "none",
           err |-> <<>>, path |-> <<>>, n |-> 0]

InitScanVars ==
    /\ spc = "idle"
    /\ stack = <<>>
    /\ entries = {}
    /\ files = <<>>
    /\ snapshot = NoSnapshot
    /\ scanRoot = Root
    /\ scanAlias = Alias
    /\ prevSnapshot = NoSnapshot
    /\ delPath = <<>>
    /\ ndel = 0

InitWriteVars ==
    /\ wpc = "idle"
    /\ fs0 = fs
    /\ observed = Unread

\* no call of get_hash_for_alias yet
NoReturn == [st |-> "none", map |-> <<>>]

InitHashVars ==
    /\ alias_path = <<>>
    /\ pending = {}
    /\ result = <<>>
    /\ hret = NoReturn

InitScan ==
    /\ \E F \in SUBSET ScanFiles, m \in {-1, MaxTick} :
          fs = MkTree(F, m)
    /\ \E L \in SUBSET LogPaths, t \in LogTimes : log = [p \in L |-> t]
    /\ InitScanVars
    /\ InitWriteVars
    /\ InitHashVars
    /\ ws = <<>>
    /\ wrec = NoRec
    /\ call = NoCall

NextScan ==
    \/ ScanBegin
    \/ ScanPop
    \/ ScanEntry
    \/ ScanFail
    \/ ScanFinish
    \/ DeleteAndRecord

SpecScan == InitScan /\ [][NextScan]_vars

(***************************************************************************)
(* Writing: one writer takes one record through get_temp_file, the         *)
(* streaming of its content and flush_temp_file, or is cancelled; a        *)
(* reader reads the final path at any moment; the root is scanned after    *)
(***************************************************************************)
\* largest modified_at (in seconds) of a record
MaxSecs == MaxTick \div TicksPerSec

\* a record of a live file
RecLive(alias, path, m) ==
    [alias |-> alias, path |-> path, modified_at |-> m, created_at |-> 0,
     size |-> MaxChunks, deleted_at |-> None]

\* a record of a deleted file
RecDeleted(alias, path, d) ==
    [alias |-> alias, path |-> path, modified_at |-> None, created_at |-> None,
     size |-> None, deleted_at |-> d]

WritePaths ==
    {<<nTxt>>, <<nA>>, <<nTmp>>, <<nDotS>>, <<nAS>>, <<nD, nTxt>>, <<nD>>, <<nTxt, nA>>}

WriteRecords ==
    {RecLive("a", p, m) : p \in WritePaths, m \in 0..MaxSecs}
        \cup {RecDeleted("a", p, 0) : p \in {<<nTxt>>, <<nTmp>>}}
        \cup {RecLive(al, <<nTxt>>, 0) : al \in {"b", "c"}}

WriteFiles == {Root \o <<nTxt>>, Root \o <<nTmp>>, Root \o <<nA>>, Root \o <<nD, nTxt>>}

InitWrite ==
    /\ \E F \in SUBSET WriteFiles : fs = MkTree(F, MaxTick)
    /\ log \in {<<>>, (<<nTmp>> :> 0)}
    /\ wrec \in WriteRecords
    /\ InitScanVars
    /\ InitWriteVars
    /\ InitHashVars
    /\ ws = <<>>
    /\ call = NoCall

\* is_local_file_newer(wrec) is called once the write is committed
IsLocalFileNewerAfterWrite ==
    /\ wpc = "done"
    /\ call = NoCall
    /\ call' = [op |-> "newer", rec |-> wrec, dest |-> NoRec,
                result |-> IsLocalFileNewer(wrec, fs), err |-> NoErr,
                path |-> <<>>, n |-> 1]
    /\ UNCHANGED <<fs, log, scanVars, delVars, writeVars, hashVars, ws>>

NextWrite ==
    \/ GetTempFileCall
    \/ WriteChunk
    \/ FlushTempFileCall
    \/ Cancel
    \/ ReadFinal
    \/ IsLocalFileNewerAfterWrite
    \/ ScanAfterWrite
    \/ ScanPop
    \/ ScanEntry
    \/ ScanFail
    \/ ScanFinish

SpecWrite == InitWrite /\ [][NextWrite]_vars

(***************************************************************************)
(* Calls: is_local_file_newer and delete_file are called, in any order,    *)
(* with any record of the family below                                     *)
(***************************************************************************)
CallPaths == {<<nTxt>>, <<nA>>, <<nD>>, <<nD, nTxt>>}

CallRecords ==
    UNION {{RecLive(al, p, m) : m \in 0..MaxSecs}
               \cup {RecDeleted(al, p, 0),
                     [RecLive(al, p, 0) EXCEPT !.deleted_at = 0],
                     [RecLive(al, p, 0) EXCEPT !.modified_at = None]}
           : al \in {"a", "b", "c"}, p \in CallPaths}

CallFiles == {Root \o <<nTxt>>, Root \o <<nD, nTxt>>, Root \o <<nD, nB>>}

\* is_local_file_newer(rec) is called
IsLocalFileNewerCall ==
    /\ \E rec \in CallRecords :
          call' = [op |-> "newer", rec |-> rec, dest |-> NoRec,
                   result |-> IsLocalFileNewer(rec, fs), err |-> NoErr,
                   path |-> <<>>, n |-> 1]
    /\ fs0' = fs
    /\ UNCHANGED <<fs, log, scanVars, delVars, wpc, wrec, observed, hashVars, ws>>

\* delete_file(rec) is called; n counts the successful calls in a row
\* with the same record
DeleteFileCall ==
    /\ \E rec \in CallRecords :
          LET r == DeleteFile(rec, fs)
              again == call.op = "delete" /\ call.rec = rec /\ call.result = "ok"
          IN  /\ again => call.n < MaxRepeat
              /\ fs' = r.tree
              /\ call' = [op |-> "delete", rec |-> rec, dest |-> NoRec,
                          result |-> r.st, err |-> r.err, path |-> <<>>,
                          n |-> IF again THEN call.n + 1 ELSE 1]
    /\ fs0' = fs
    /\ UNCHANGED <<log, scanVars, delVars, wpc, wrec, observed, hashVars, ws>>

InitCalls ==
    /\ \E F \in SUBSET CallFiles, m \in (-1)..MaxTick :
          fs = MkTree(F, m)
    /\ log = <<>>
    /\ wrec = NoRec
    /\ InitScanVars
    /\ InitWriteVars
    /\ InitHashVars
    /\ ws = <<>>
    /\ call = NoCall

NextCalls ==
    \/ IsLocalFileNewerCall
    \/ DeleteFileCall

SpecCalls == InitCalls /\ [][NextCalls]_vars

(***************************************************************************)
(* Properties of walk_path                                                 *)
(***************************************************************************)
\* indices of the snapshot's records for the relative path p
RecordsOf(snap, p) == {i \in 1..Len(snap.files) : snap.files[i].path = p}

IsTombstone(r) ==
    /\ IsSome(r.deleted_at)
    /\ r.modified_at = None /\ r.created_at = None /\ r.size = None

\* the file name is the sentinel suffix or has it as its extension
HasSentinelName(p) ==
    LET name == FileName(p)
    IN  \/ name = <<Sentinel>>
        \/ /\ Len(name) >= 2
           /\ name[Len(name)] = Sentinel
           /\ name[Len(name) - 1] = Dot

\* C1: the snapshot walk_path returns is sorted strictly ascending by path
\* (so no two of its records have the same path), whatever the tree and the
\* deletion log hold.
C1_StrictlySorted ==
    snapshot.st = "ok" =>
        \A i \in 1..(Len(snapshot.files) - 1) :
            PathLess(snapshot.files[i].path, snapshot.files[i + 1].path)

\* C5: a path of the deletion log that is absent from the tree has exactly
\* one record in the snapshot, a tombstone whose deleted_at is the logged
\* time
C5_TombstoneOnce ==
    snapshot.st = "ok" =>
        \A p \in DOMAIN log :
            ~Exists(fs, Root \o p) =>
                /\ Cardinality(RecordsOf(snapshot, p)) = 1
                /\ \A i \in RecordsOf(snapshot, p) :
                      /\ IsTombstone(snapshot.files[i])
                      /\ FromSecs(snapshot.files[i].deleted_at) = log[p]

\* C5: after a live file is removed and its tombstone recorded, the rescan
\* has the tombstone where the live record was and every other record as
\* before
C5_TombstoneInPlace ==
    (prevSnapshot.st = "ok" /\ snapshot.st = "ok") =>
        \A i \in 1..Len(prevSnapshot.files) :
            (prevSnapshot.files[i].path = delPath
                 /\ prevSnapshot.files[i].deleted_at = None) =>
                /\ Len(snapshot.files) = Len(prevSnapshot.files)
                /\ IsTombstone(snapshot.files[i])
                /\ snapshot.files[i].path = delPath
                /\ \A j \in 1..Len(snapshot.files) :
                      j # i => snapshot.files[j] = prevSnapshot.files[j]

\* C5: a tombstoned path that is absent from the tree has exactly one
\* record, a tombstone with the logged time; and after a live file is
\* removed and its tombstone recorded, the rescan has the tombstone where
\* the live record was, every other record unchanged
C5_Tombstones == C5_TombstoneOnce /\ C5_TombstoneInPlace

\* C6: no record of a snapshot has a file name that is the sentinel suffix
\* or has it as its extension, live records and tombstones alike
C6_NoSentinelRecord ==
    snapshot.st = "ok" =>
        \A i \in 1..Len(snapshot.files) : ~HasSentinelName(snapshot.files[i].path)

\* the files of the tree below the root
LiveFiles == {p \in DOMAIN fs : IsFile(fs, p)}

\* number of live records of the snapshot for the relative path p
LiveCount(p) ==
    Cardinality({i \in RecordsOf(snapshot, p) : snapshot.files[i].deleted_at = None})

\* the file name ends with the sentinel suffix
EndsWithSentinel(name) == name # <<>> /\ name[Len(name)] = Sentinel

\* the name of p or of a directory between the root and p ends with the suffix
UnderSentinel(p) ==
    \E k \in (Len(Root) + 1)..Len(p) : EndsWithSentinel(p[k])

\* C7 as stated: every file whose own name does not end with the sentinel
\* suffix has exactly one live record, under its path relative to the root
C7_EveryFileOnce ==
    snapshot.st = "ok" =>
        \A p \in LiveFiles :
            ~EndsWithSentinel(FileName(p)) => LiveCount(StripPrefix(p, Root)) = 1

\* C7 amended: every file that is not below a directory whose name ends
\* with the sentinel suffix, and whose own name does not end with it, has
\* exactly one live record, under its path relative to the root
C7_EveryReachableFileOnce ==
    snapshot.st = "ok" =>
        \A p \in LiveFiles :
            ~UnderSentinel(p) => LiveCount(StripPrefix(p, Root)) = 1

\* a scan of a tree with a nested file and a sentinel-named directory is done
C7_Witness ==
    /\ snapshot.st = "ok"
    /\ IsFile(fs, Root \o <<nD, nTxt>>)
    /\ IsFile(fs, Root \o <<nDS, nTxt>>)
    /\ LiveCount(<<nD, nTxt>>) = 1

(***************************************************************************)
(* Properties of get_temp_file and flush_temp_file                         *)
(***************************************************************************)
\* the writer's final path and temp path
FinalOf(rec) == GetAbsolutePath(rec, fs0).path

TempOf(rec) == TempPath(FinalOf(rec))

\* the file name has a stem, a dot and the sentinel suffix as its extension
HasSentinelExt(p) ==
    LET name == FileName(p)
    IN  Len(name) >= 3 /\ name[Len(name)] = Sentinel /\ name[Len(name) - 1] = Dot

\* after get_temp_file and flush_temp_file both returned Ok: no temp file,
\* and the final file has the streamed content and the record's time
Committed ==
    /\ ~Exists(fs, SetExtension(FinalOf(wrec), Sentinel))
    /\ IsFile(fs, FinalOf(wrec))
    /\ fs[FinalOf(wrec)].content = NewContent
    /\ fs[FinalOf(wrec)].mtime = wrec.modified_at * TicksPerSec
    /\ fs[FinalOf(wrec)].mtime \div TicksPerSec = wrec.modified_at

\* C2 as stated: for any record, get_temp_file then flush_temp_file, both
\* successful, leave no temp file and the final file with the written
\* content and modification time modified_at
C2_CommitAnyRecord == wpc = "done" => Committed

\* C2 amended: the same for any record whose file name does not have the
\* sentinel suffix as its extension
C2_Commit == (wpc = "done" /\ ~HasSentinelExt(wrec.path)) => Committed

\* a commit that replaced an older file
C2_Witness ==
    /\ wpc = "done"
    /\ wrec.path = <<nD, nTxt>>
    /\ IsFile(fs0, FinalOf(wrec))
    /\ wrec.modified_at = MaxSecs

\* after a cancelled write: the final path is as before get_temp_file, the
\* only new entries are the temp file and its created parent directories,
\* and a scan has no record of the temp file (a record under its path can
\* only be a tombstone of the deletion log)
CancelledClean ==
    /\ Exists(fs, FinalOf(wrec)) <=> Exists(fs0, FinalOf(wrec))
    /\ Exists(fs0, FinalOf(wrec)) => fs[FinalOf(wrec)] = fs0[FinalOf(wrec)]
    /\ \A p \in DOMAIN fs \ DOMAIN fs0 :
          \/ p = SetExtension(FinalOf(wrec), Sentinel) /\ IsFile(fs, p)
          \/ IsPrefix(p, Parent(FinalOf(wrec))) /\ IsDir(fs, p)
    /\ DOMAIN fs0 \subseteq DOMAIN fs
    /\ snapshot.st = "ok" =>
          \A i \in 1..Len(snapshot.files) :
              snapshot.files[i].path = StripPrefix(SetExtension(FinalOf(wrec), Sentinel), Root)
                  => snapshot.files[i].deleted_at # None

\* C3 as stated: a cancelled write leaves the final path untouched and only
\* an unscanned temp file behind, for every record path
C3_CancelAnyPath == wpc = "cancelled" => CancelledClean

\* C3 amended: the same for every record path whose file name does not
\* have the sentinel suffix as its extension (paths without an extension,
\* and names that end with the suffix without a dot before it, included)
C3_Cancel == (wpc = "cancelled" /\ ~HasSentinelExt(wrec.path)) => CancelledClean

\* a write cancelled after a chunk, over an existing final file, then scanned
C3_Witness ==
    /\ wpc = "cancelled"
    /\ wrec.path = <<nD, nTxt>>
    /\ IsFile(fs0, FinalOf(wrec))
    /\ fs[TempOf(wrec)].content = <<1>>
    /\ snapshot.st = "ok"

\* a second cancelled write: no extension, parent directory created
C3_WitnessNoExt ==
    /\ wpc = "cancelled"
    /\ wrec.path = <<nA>>
    /\ snapshot.st = "ok"

\* what the reader may see: the final path as it was, or the whole new content
OldOrNew ==
    \/ observed = Unread
    \/ observed.saw = Obs(fs0, FinalOf(wrec))
    \/ observed.saw = <<"file", NewContent>>

\* C4 as stated: the reader never sees a partially written final file
C4_ReaderAnyRecord == OldOrNew

\* C4 amended: the reader never sees a partially written final file when
\* the record's file name does not have the sentinel suffix as its extension
C4_Reader == ~HasSentinelExt(wrec.path) => OldOrNew

\* the reader read the old content while the temp file was half written
C4_Witness ==
    /\ wpc = "open"
    /\ observed.at = "open"
    /\ wrec.path = <<nTxt>>
    /\ fs[TempOf(wrec)].content = <<1>>
    /\ observed.saw = <<"file", <<0>>>>

(***************************************************************************)
(* Properties of is_local_file_newer and delete_file                       *)
(***************************************************************************)
\* the path the call's record resolves to in the tree before the call
CallPath == ConfigPaths[call.rec.alias] \o call.rec.path

CallResolves ==
    call.rec.alias \in DOMAIN ConfigPaths /\ Exists(fs0, ConfigPaths[call.rec.alias])

\* C8: is_local_file_newer is true for every record with deleted_at set,
\* whatever the tree, the alias and the record's other fields
C8_DeletedIsNewer ==
    (call.op = "newer" /\ call.rec.deleted_at # None) => call.result = "true"

\* a deleted record of an alias that is not configured was found newer
C8_Witness ==
    /\ call.op = "newer"
    /\ call.rec.deleted_at # None
    /\ call.rec.alias = "c"
    /\ call.rec.modified_at # None
    /\ call.result = "true"

\* C9: for a live record with modified_at, is_local_file_newer is true iff
\* the alias resolves, the local file exists and its modification time in
\* whole seconds is greater than modified_at; otherwise it is false
C9_NewerIffLater ==
    (call.op = "newer" /\ call.rec.deleted_at = None /\ call.rec.modified_at # None) =>
        /\ call.result \in {"true", "false"}
        /\ call.result = "true" <=>
              /\ CallResolves
              /\ Exists(fs0, CallPath)
              /\ fs0[CallPath].mtime >= (call.rec.modified_at + 1) * TicksPerSec

\* a local file later than the record by less than a second is not newer
C9_Witness ==
    /\ call.op = "newer" /\ call.rec.deleted_at = None
    /\ call.rec.modified_at = 1
    /\ CallResolves /\ Exists(fs0, CallPath)
    /\ fs0[CallPath].mtime = TicksPerSec + 1
    /\ call.result = "false"

\* a local file a second later is newer
C9_WitnessNewer ==
    /\ call.op = "newer" /\ call.rec.deleted_at = None
    /\ call.rec.modified_at = 0
    /\ CallResolves /\ Exists(fs0, CallPath)
    /\ fs0[CallPath].mtime = TicksPerSec
    /\ call.result = "true"

\* the tree t without the paths in gone, everything else as it was
Removed(t0, t1, gone) ==
    /\ DOMAIN t1 = DOMAIN t0 \ gone
    /\ \A q \in DOMAIN t1 : t1[q] = t0[q]

C10_WitnessDir ==
    /\ call.op = "delete" /\ call.n = 1
    /\ call.rec.path = <<nD>>
    /\ Cardinality(DOMAIN fs0) = Cardinality(DOMAIN fs) + 3
    /\ IsFile(fs, Root \o <<nTxt>>)

IsLive(r) ==
    /\ IsSome(r.modified_at) /\ IsSome(r.created_at) /\ IsSome(r.size)
    /\ r.deleted_at = None

\* C11: every record of a snapshot is either live (modified_at, created_at
\* and size present, deleted_at absent) or a tombstone (deleted_at present,
\* the three others absent), never both and never neither, whatever the
\* times of the files and of the deletion log
C11_LiveOrTombstone ==
    snapshot.st = "ok" =>
        \A i \in 1..Len(snapshot.files) :
            ~(IsLive(snapshot.files[i]) <=> IsTombstone(snapshot.files[i]))

(***************************************************************************)
(* move_file                                                               *)
(***************************************************************************)
\* mutant: the source is copied, not moved
MoveFileCopy(src_file, dest_file, tree) ==
    LET src == GetAbsolutePath(src_file, tree)
        dest == GetAbsolutePath(dest_file, tree)
        moved == Rename(tree, src.path, dest.path)
    IN  IF ~src.ok THEN [st |-> "err", tree |-> tree, err |-> src.err]
        ELSE IF ~dest.ok THEN [st |-> "err", tree |-> tree, err |-> dest.err]
        ELSE IF ~moved.ok THEN [st |-> "err", tree |-> tree, err |-> moved.err]
        ELSE [st |-> "ok",
              tree |-> [q \in DOMAIN moved.tree \cup {x \in DOMAIN tree : IsPrefix(src.path, x)} |->
                           IF q \in DOMAIN moved.tree THEN moved.tree[q] ELSE tree[q]],
              err |-> NoErr]

\* fn move_file: the tree after the call and whether it returned Ok
MoveFile(src_file, dest_file, tree) ==
    LET src == GetAbsolutePath(src_file, tree)
        dest == GetAbsolutePath(dest_file, tree)
        moved == Rename(tree, src.path, dest.path)
    IN  IF ~src.ok THEN [st |-> "err", tree |-> tree, err |-> src.err]
        ELSE IF ~dest.ok THEN [st |-> "err", tree |-> tree, err |-> dest.err]
        ELSE IF ~moved.ok THEN [st |-> "err", tree |-> tree, err |-> moved.err]
        ELSE [st |-> "ok", tree |-> moved.tree, err |-> NoErr]

(***************************************************************************)
(* Mutations: one of get_absolute_path, delete_file, move_file,            *)
(* get_temp_file and flush_temp_file is called, with any record of the     *)
(* family below, on any tree of the family below                           *)
(***************************************************************************)
MutatePaths == {<<nTxt>>, <<nB>>, <<nTmp>>, <<nD>>, <<nD, nTxt>>}

MutateRecords ==
    UNION {{RecLive(al, p, m) : m \in 0..MaxSecs} \cup {RecDeleted(al, p, 0)}
           : al \in {"a", "b", "c"}, p \in MutatePaths}

MoveRecords == {RecLive(al, p, 0) : al \in {"a", "b", "c"}, p \in MutatePaths}

MutateFiles ==
    {Root \o <<nTxt>>, Root \o <<nB>>, Root \o <<nTmp>>, Root \o <<nDS>>,
     Root \o <<nD, nTxt>>, Root \o <<nD, nTmp>>}

\* the tree of the files F where each file with a sentinel name is a temp
\* file a writer has streamed its content into
MutateTree(F, m) ==
    LET t == MkTree(F, m)
    IN  [q \in DOMAIN t |->
            IF IsFile(t, q) /\ is_special_file(q) THEN FileNode(NewContent, Now, Now)
            ELSE t[q]]

\* get_absolute_path(rec) is called
CallGetAbsolutePath ==
    /\ call = NoCall
    /\ \E rec \in MutateRecords :
          LET r == GetAbsolutePath(rec, fs)
          IN  call' = [op |-> "resolve", rec |-> rec, dest |-> NoRec,
                       result |-> IF r.ok THEN "ok" ELSE "err", err |-> r.err,
                       path |-> r.path, n |-> 1]
    /\ fs0' = fs
    /\ UNCHANGED <<fs, log, scanVars, delVars, wpc, wrec, observed, hashVars, ws>>

\* move_file(src_file, dest_file) is called
CallMoveFile ==
    /\ call = NoCall
    /\ \E src_file \in MoveRecords, dest_file \in MoveRecords :
          LET r == MoveFile(src_file, dest_file, fs)
          IN  /\ fs' = r.tree
              /\ call' = [op |-> "move", rec |-> src_file, dest |-> dest_file,
                          result |-> r.st, err |-> r.err, path |-> <<>>, n |-> 1]
    /\ fs0' = fs
    /\ UNCHANGED <<log, scanVars, delVars, wpc, wrec, observed, hashVars, ws>>

\* get_temp_file(rec) is called and the handle dropped
CallGetTempFile ==
    /\ call = NoCall
    /\ \E rec \in MutateRecords :
          LET r == GetTempFile(rec, fs)
          IN  /\ fs' = r.tree
              /\ call' = [op |-> "open", rec |-> rec, dest |-> NoRec,
                          result |-> IF r.ok THEN "ok" ELSE "err", err |-> r.err,
                          path |-> <<>>, n |-> 1]
    /\ fs0' = fs
    /\ UNCHANGED <<log, scanVars, delVars, wpc, wrec, observed, hashVars, ws>>

\* flush_temp_file(rec) is called
CallFlushTempFile ==
    /\ call = NoCall
    /\ \E rec \in MutateRecords :
          \E r \in FlushTempFileOutcomes(rec, fs) :
              /\ fs' = r.tree
              /\ call' = [op |-> "flush", rec |-> rec, dest |-> NoRec,
                          result |-> r.st, err |-> r.err, path |-> <<>>, n |-> 1]
    /\ fs0' = fs
    /\ UNCHANGED <<log, scanVars, delVars, wpc, wrec, observed, hashVars, ws>>

\* delete_file(rec) is called
CallDeleteFile ==
    /\ call = NoCall
    /\ DeleteFileCall

InitMutate ==
    /\ \E F \in SUBSET MutateFiles, m \in {0, MaxTick} : fs = MutateTree(F, m)
    /\ log = <<>>
    /\ wrec = NoRec
    /\ InitScanVars
    /\ InitWriteVars
    /\ InitHashVars
    /\ ws = <<>>
    /\ call = NoCall

NextMutate ==
    \/ CallGetAbsolutePath
    \/ CallDeleteFile
    \/ CallMoveFile
    \/ CallGetTempFile
    \/ CallFlushTempFile

SpecMutate == InitMutate /\ [][NextMutate]_vars

(***************************************************************************)
(* Properties of flush_temp_file, get_absolute_path and move_file          *)
(***************************************************************************)
\* the path p holds the same file, with the same content and modification
\* time, or is as absent, in both trees
SameAt(t0, t1, p) ==
    /\ Exists(t1, p) <=> Exists(t0, p)
    /\ Exists(t0, p) =>
          /\ t1[p].kind = t0[p].kind
          /\ t1[p].content = t0[p].content
          /\ t1[p].mtime = t0[p].mtime

\* C12: when flush_temp_file returns an error or panics, the final path
\* has the content and the modification time it had before the call; when
\* it returns Ok, the final path has the content of the temp file and the
\* modification time modified_at of the record
C12_AllOrNothing ==
    (call.op = "flush" /\ CallResolves) =>
        /\ call.result \in {"err", "panic"} => SameAt(fs0, fs, CallPath)
        /\ call.result = "ok" =>
              /\ IsFile(fs, CallPath)
              /\ fs[CallPath].content = fs0[SetExtension(CallPath, Sentinel)].content
              /\ fs[CallPath].mtime = call.rec.modified_at * TicksPerSec

(***************************************************************************)
(* Determinism of walk_path                                                *)
(***************************************************************************)
\* the records a scan of the current tree and deletion log has to return:
\* one tombstone per logged path, one live record per file that is not
\* below (or itself) a sentinel name
ExpectedRecords ==
    {NewDeleted(Alias, p, log[p]) : p \in DOMAIN log}
        \cup {FileInfoNew(Alias, StripPrefix(p, Root), fs[p]) :
                 p \in {q \in LiveFiles : ~UnderSentinel(q)}}

\* s lists the records R once each, ascending by path, a tombstone before
\* the live record of the same path: R has one such listing
ListsInOrder(s, R) ==
    /\ Len(s) = Cardinality(R)
    /\ {s[i] : i \in 1..Len(s)} = R
    /\ \A i, j \in 1..Len(s) :
          i < j => \/ PathLess(s[i].path, s[j].path)
                   \/ /\ s[i].path = s[j].path
                      /\ IsSome(s[i].deleted_at) /\ s[j].deleted_at = None

\* C13: whatever the order in which directory entries are enumerated,
\* directories popped and the deletion log iterated, a successful scan
\* returns the one sequence the tree and the log determine; so two scans
\* of an unchanged tree and log return the same sequence
C13_SameSequence ==
    snapshot.st = "ok" => ListsInOrder(snapshot.files, ExpectedRecords)

\* a scan of two directories and a log of two paths, one of them also a
\* live file, is done
C13_Witness ==
    /\ snapshot.st = "ok"
    /\ Cardinality(DOMAIN log) = 2
    /\ Cardinality(RecordsOf(snapshot, <<nTxt>>)) = 2
    /\ LiveCount(<<nD, nTxt>>) = 1
    /\ LiveCount(<<nB>>) = 1

(***************************************************************************)
(* impl Hash for FileInfo, calculate_hash                                  *)
(***************************************************************************)
\* mutant: created_at is hashed too
HashInputCreated(r) == <<r.alias, r.path, r.modified_at, r.size, r.created_at>>

\* mutant: deleted_at is hashed too
HashInputDeleted(r) == <<r.alias, r.path, r.modified_at, r.size, r.deleted_at>>

\* impl Hash for FileInfo: what one record feeds to the hasher
HashInput(r) == <<r.alias, r.path, r.modified_at, r.size>>

\* crate::crypto::calculate_hash(&files): a hash without collisions of
\* what the records feed to the hasher, in their order
calculate_hash(fl) == [i \in 1..Len(fl) |-> HashInput(fl[i])]

(***************************************************************************)
(* Hashing: the hash of two snapshots of the same paths is computed        *)
(***************************************************************************)
HashContents == {<<>>, <<0>>}

\* modification times: before the epoch, the epoch, a second later
HashTimes == {-1, 0, TicksPerSec}

\* the records FileInfo::new and FileInfo::new_deleted build for path p
HashRecords(p) ==
    {FileInfoNew(Alias, p, FileNode(c, m, ct)) :
         c \in HashContents, m \in HashTimes, ct \in {0, TicksPerSec}}
        \cup {NewDeleted(Alias, p, t) : t \in {0, TicksPerSec}}

\* snapshots of one or two paths, sorted
HashSnapshots ==
    {<<ra>> : ra \in HashRecords(<<nTxt>>)}
        \cup {<<ra, rb>> : ra \in HashRecords(<<nTxt>>), rb \in HashRecords(<<nB>>)}

\* calculate_hash is applied to the snapshot and to another one of the
\* same paths
CallCalculateHash ==
    /\ call = NoCall
    /\ \E other \in HashSnapshots :
          /\ Len(other) = Len(prevSnapshot.files)
          /\ other # prevSnapshot.files
          /\ snapshot' = ScanOk(other)
          /\ call' = [op |-> "hash", rec |-> NoRec, dest |-> NoRec,
                      result |-> <<calculate_hash(prevSnapshot.files), calculate_hash(other)>>,
                      err |-> NoErr, path |-> <<>>, n |-> 1]
    /\ UNCHANGED <<fs, log, spc, stack, entries, files, scanArgs, delVars, writeVars,
                   hashVars, ws>>

InitHash ==
    /\ fs = MkTree({}, 0)
    /\ log = <<>>
    /\ wrec = NoRec
    /\ spc = "idle" /\ stack = <<>> /\ entries = {} /\ files = <<>>
    /\ scanRoot = Root /\ scanAlias = Alias
    /\ \E s \in HashSnapshots : snapshot = ScanOk(s) /\ prevSnapshot = ScanOk(s)
    /\ delPath = <<>> /\ ndel = 0
    /\ InitWriteVars
    /\ InitHashVars
    /\ ws = <<>>
    /\ call = NoCall

NextHash == CallCalculateHash

SpecHash == InitHash /\ [][NextHash]_vars

(***************************************************************************)
(* Properties of the fingerprint                                           *)
(***************************************************************************)
\* the two snapshots hashed, and their fingerprints
Hashed == call.op = "hash"

Snap1 == prevSnapshot.files

Snap2 == snapshot.files

SameFingerprint == call.result[1] = call.result[2]

\* alias, path, modified_at and size of a record
KeyOf(r) == [alias |-> r.alias, path |-> r.path, modified_at |-> r.modified_at,
             size |-> r.size]

\* C14: two snapshots have the same fingerprint exactly when their records
\* have, in order, the same alias, path, modified_at and size; so a live
\* record whose size or modified_at changes changes what it feeds to the
\* hasher and the fingerprint, and snapshots that differ only in created_at
\* have the same fingerprint
C14_FingerprintOfKeys ==
    Hashed =>
        /\ SameFingerprint <=> \A i \in 1..Len(Snap1) : KeyOf(Snap1[i]) = KeyOf(Snap2[i])
        /\ \A i \in 1..Len(Snap1) :
              (/\ Snap1[i].deleted_at = None /\ Snap2[i].deleted_at = None
               /\ \/ Snap1[i].size # Snap2[i].size
                  \/ Snap1[i].modified_at # Snap2[i].modified_at)
                  => (HashInput(Snap1[i]) # HashInput(Snap2[i]) /\ ~SameFingerprint)
        /\ (\A i \in 1..Len(Snap1) :
                 [Snap1[i] EXCEPT !.created_at = None] = [Snap2[i] EXCEPT !.created_at = None])
              => SameFingerprint

\* two snapshots of two live files that differ in both created_at only
\* were hashed
C14_Witness ==
    /\ Hashed /\ Len(Snap1) = 2
    /\ \A i \in 1..2 :
          /\ Snap1[i].deleted_at = None
          /\ Snap1[i].created_at # Snap2[i].created_at
          /\ KeyOf(Snap1[i]) = KeyOf(Snap2[i])
    /\ SameFingerprint

\* two snapshots that differ in the size of one live file were hashed
C14_WitnessSize ==
    /\ Hashed /\ Len(Snap1) = 2
    /\ Snap1[1] = Snap2[1]
    /\ Snap1[2].deleted_at = None /\ Snap2[2].deleted_at = None
    /\ Snap1[2].size # Snap2[2].size
    /\ Snap1[2].modified_at = Snap2[2].modified_at
    /\ ~SameFingerprint

\* C20: two snapshots that differ only in the deleted_at of tombstones
\* have the same fingerprint; and a tombstone and a live record of the
\* same path feed different values to the hasher, the size being absent
\* in one and present in the other
C20_DeletedAtNotHashed ==
    Hashed =>
        /\ (\A i \in 1..Len(Snap1) :
                 \/ Snap1[i] = Snap2[i]
                 \/ /\ IsTombstone(Snap1[i]) /\ IsTombstone(Snap2[i])
                    /\ Snap1[i].alias = Snap2[i].alias
                    /\ Snap1[i].path = Snap2[i].path)
              => SameFingerprint
        /\ \A i \in 1..Len(Snap1) :
              (IsTombstone(Snap1[i]) /\ Snap2[i].deleted_at = None) =>
                  /\ Snap1[i].path = Snap2[i].path
                  /\ Snap1[i].size = None /\ Snap2[i].size # None
                  /\ HashInput(Snap1[i]) # HashInput(Snap2[i])
                  /\ ~SameFingerprint

\* two snapshots of two tombstones, both with another deleted_at, were hashed
C20_Witness ==
    /\ Hashed /\ Len(Snap1) = 2
    /\ \A i \in 1..2 :
          /\ IsTombstone(Snap1[i]) /\ IsTombstone(Snap2[i])
          /\ Snap1[i].deleted_at # Snap2[i].deleted_at
    /\ SameFingerprint

\* a tombstone and a live record without modified_at, of the same path,
\* were hashed
C20_WitnessLive ==
    /\ Hashed /\ Len(Snap1) = 1
    /\ IsTombstone(Snap1[1])
    /\ Snap2[1].deleted_at = None /\ Snap2[1].modified_at = None
    /\ ~SameFingerprint

(***************************************************************************)
(* get_hash_for_alias                                                      *)
(***************************************************************************)
\* the roots of the aliases: "a" and "c" are the root, "b" is a directory
\* that does not exist
AliasRoots == ("a" :> Root) @@ ("b" :> MissingRoot) @@ ("c" :> Root)

\* let mut result = HashMap::new()
GetHashBegin ==
    /\ hret.st = "none" /\ spc = "idle"
    /\ pending' = DOMAIN alias_path
    /\ result' = <<>>
    /\ hret' = [st |-> "running", map |-> <<>>]
    /\ UNCHANGED <<fs, log, scanVars, delVars, writeVars, call, alias_path, ws>>

\* for (alias, path) in alias_path { get_files_with_hash(path, alias) ...:
\* the aliases of a HashMap come in any order
GetHashScan ==
    /\ hret.st = "running" /\ spc = "idle" /\ snapshot.st = "none"
    /\ \E al \in pending :
          /\ WalkPathBegin(alias_path[al], al)
          /\ pending' = pending \ {al}
    /\ UNCHANGED <<fs, log, delVars, writeVars, call, alias_path, result, hret, ws>>

\* walk_path returned Ok(files): result.insert(alias, calculate_hash(&files))
GetHashInsert ==
    /\ hret.st = "running" /\ spc = "idle" /\ snapshot.st = "ok"
    /\ result' = [al \in DOMAIN result \cup {scanAlias} |->
                     IF al = scanAlias THEN calculate_hash(snapshot.files) ELSE result[al]]
    /\ snapshot' = NoSnapshot
    /\ UNCHANGED <<fs, log, spc, stack, entries, files, scanArgs, delVars, writeVars,
                   call, alias_path, pending, hret, ws>>

\* walk_path returned Err: the `?` returns it, `result` is dropped
GetHashErr ==
    /\ hret.st = "running" /\ spc = "idle" /\ snapshot.st = "err"
    /\ hret' = [st |-> "err", map |-> <<>>]
    /\ UNCHANGED <<fs, log, scanVars, delVars, writeVars, call, alias_path, pending,
                   result, ws>>

\* the loop is over: Ok(result)
GetHashReturn ==
    /\ hret.st = "running" /\ spc = "idle" /\ snapshot.st = "none"
    /\ pending = {}
    /\ hret' = [st |-> "ok", map |-> result]
    /\ UNCHANGED <<fs, log, scanVars, delVars, writeVars, call, alias_path, pending,
                   result, ws>>

HashAllFiles == {Root \o <<nTxt>>, Root \o <<nD, nTxt>>, Root \o <<nTmp>>}

InitHashAll ==
    /\ \E F \in SUBSET HashAllFiles : fs = MkTree(F, MaxTick)
    /\ log \in {<<>>, (<<nB>> :> 0)}
    /\ wrec = NoRec
    /\ InitScanVars
    /\ InitWriteVars
    /\ \E S \in SUBSET DOMAIN AliasRoots : alias_path = [al \in S |-> AliasRoots[al]]
    /\ pending = {}
    /\ result = <<>>
    /\ hret = NoReturn
    /\ ws = <<>>
    /\ call = NoCall

NextHashAll ==
    \/ GetHashBegin
    \/ GetHashScan
    \/ ScanPop
    \/ ScanEntry
    \/ ScanFail
    \/ ScanFinish
    \/ GetHashInsert
    \/ GetHashErr
    \/ GetHashReturn

SpecHashAll == InitHashAll /\ [][NextHashAll]_vars

(***************************************************************************)
(* Properties of failing scans                                             *)
(***************************************************************************)
\* the records a scan of the root under alias al has to return
ExpectedRecordsOf(al) ==
    {NewDeleted(al, p, log[p]) : p \in DOMAIN log}
        \cup {FileInfoNew(al, StripPrefix(p, Root), fs[p]) :
                 p \in {q \in LiveFiles : ~UnderSentinel(q)}}

\* C15: a scan returns either an error and no record, or Ok and every
\* record of the tree and the log, never a part of them; and
\* get_hash_for_alias returns either an error and no mapping, or Ok and the
\* hash of every alias, which it does only when every alias was scanned
\* successfully (an alias whose root cannot be read makes it fail)
C15_NoPartialResult ==
    /\ snapshot.st = "err" => snapshot.files = <<>>
    /\ snapshot.st = "ok" => ListsInOrder(snapshot.files, ExpectedRecordsOf(scanAlias))
    /\ hret.st = "err" => hret.map = <<>>
    /\ hret.st = "ok" =>
          /\ DOMAIN hret.map = DOMAIN alias_path
          /\ \A al \in DOMAIN alias_path :
                /\ IsDir(fs, alias_path[al])
                /\ Len(hret.map[al]) = Cardinality(ExpectedRecordsOf(al))

\* get_hash_for_alias failed at the second of three aliases, the hash of
\* the first already in `result`
C15_Witness ==
    /\ hret.st = "err"
    /\ DOMAIN result = {"a"}
    /\ Len(result["a"]) = 3
    /\ pending = {"c"}
    /\ scanAlias = "b"

\* get_hash_for_alias returned the hashes of two aliases
C15_WitnessOk ==
    /\ hret.st = "ok"
    /\ DOMAIN hret.map = {"a", "c"}
    /\ Len(hret.map["c"]) = 3

(***************************************************************************)
(* Properties of get_absolute_path and move_file                           *)
(***************************************************************************)
\* the alias is in the alias table and its root exists
Resolvable(rec) ==
    rec.alias \in {"a", "b"} /\ Exists(fs0, IF rec.alias = "a" THEN Root ELSE MissingRoot)

\* the call returned the error AliasNotAvailable(alias) and changed nothing
FailedWith(al) ==
    /\ call.result = "err"
    /\ call.err = <<"AliasNotAvailable", al>>
    /\ fs = fs0

\* C16: get_absolute_path returns AliasNotAvailable(alias) when the alias
\* is not in the table or its root does not exist, and otherwise the root
\* followed by the components of the record's path, and leaves the tree
\* as it is; delete_file, move_file, get_temp_file and flush_temp_file
\* given a record whose alias does not resolve return that error and leave
\* the tree as it is
C16_AliasNotAvailable ==
    /\ call.op = "resolve" =>
          /\ fs = fs0
          /\ ~Resolvable(call.rec) => FailedWith(call.rec.alias)
          /\ Resolvable(call.rec) =>
                /\ call.result = "ok"
                /\ call.path = Root \o call.rec.path
    /\ (call.op \in {"delete", "open", "flush", "move"} /\ ~Resolvable(call.rec)) =>
          FailedWith(call.rec.alias)
    /\ (call.op = "move" /\ Resolvable(call.rec) /\ ~Resolvable(call.dest)) =>
          FailedWith(call.dest.alias)

\* get_temp_file was called with a record of an alias whose root does not
\* exist, on a tree holding files
C16_Witness ==
    /\ call.op = "open"
    /\ call.rec.alias = "b"
    /\ call.rec.path = <<nD, nTxt>>
    /\ call.err = <<"AliasNotAvailable", "b">>
    /\ IsFile(fs, Root \o <<nTmp>>)

\* move_file was called with a destination of an alias that is not in the table
C16_WitnessMove ==
    /\ call.op = "move"
    /\ call.rec.alias = "a" /\ IsFile(fs0, Root \o call.rec.path)
    /\ call.dest.alias = "c"
    /\ call.err = <<"AliasNotAvailable", "c">>

\* the paths the source and the destination of the move resolve to
SrcPath == Root \o call.rec.path

DestPath == Root \o call.dest.path

\* the source is gone and the destination holds what the source held, the
\* entries below it included
MovedOver ==
    /\ ~Exists(fs, SrcPath)
    /\ \A q \in DOMAIN fs0 :
          IsPrefix(SrcPath, q) =>
              LET to == DestPath \o SubSeq(q, Len(SrcPath) + 1, Len(q))
              IN  Exists(fs, to) /\ fs[to] = fs0[q]

\* a move either succeeded and moved the source over, or failed and left
\* the tree as it was
MovedOrUnchanged ==
    /\ call.result \in {"ok", "err"}
    /\ call.result = "ok" => MovedOver
    /\ call.result = "err" => fs = fs0
    /\ (~Resolvable(call.rec) \/ ~Resolvable(call.dest)) => call.result = "err"

\* C17 as stated: for any two records, a successful move_file leaves the
\* source path absent and the source's content at the destination, and a
\* failed one (an alias that does not resolve, a rename that fails) leaves
\* the tree as it was
C17_MoveAnyRecords == call.op = "move" => MovedOrUnchanged

\* C17 amended: the same for two records that do not resolve to the same path
C17_Move ==
    (call.op = "move"
         /\ ~(Resolvable(call.rec) /\ Resolvable(call.dest) /\ SrcPath = DestPath))
        => MovedOrUnchanged

\* a directory with a file in it was moved onto a file
C17_WitnessFail ==
    /\ call.op = "move" /\ call.result = "err"
    /\ Resolvable(call.rec) /\ Resolvable(call.dest)
    /\ IsDir(fs0, SrcPath) /\ IsFile(fs0, DestPath)

\* a file was moved over another file
C17_Witness ==
    /\ call.op = "move" /\ call.result = "ok"
    /\ SrcPath = Root \o <<nTmp>> /\ DestPath = Root \o <<nD, nTxt>>
    /\ IsFile(fs0, DestPath)
    /\ fs[DestPath].content = NewContent

(***************************************************************************)
(* Two writers: each takes its own record through get_temp_file, the       *)
(* streaming of its content and flush_temp_file; their steps interleave.   *)
(* A writer's handle stays with the file it opened when that file is       *)
(* truncated or renamed by the other writer                                *)
(***************************************************************************)
Writers == {1, 2}

\* the content writer w streams: MaxChunks chunks of its own
ContentOf(w) == [k \in 1..MaxChunks |-> 10 * w + k]

\* the handle of a file that has been replaced by a rename: no path
NoPath == <<>>

\* write(2) of one chunk at offset pos - 1: a gap before it reads as zeros
WriteAt(content, pos, v) ==
    IF pos <= Len(content) THEN [content EXCEPT ![pos] = v]
    ELSE content \o [i \in 1..(pos - 1 - Len(content)) |-> 0] \o <<v>>

\* writer w calls get_temp_file(rec) and keeps the handle
OpenTemp(w) ==
    /\ ws[w].pc = "idle"
    /\ LET r == GetTempFile(ws[w].rec, fs)
       IN  /\ fs' = r.tree
           /\ ws' = [ws EXCEPT ![w].pc = IF r.ok THEN "open" ELSE "err",
                               ![w].at = IF r.ok
                                         THEN TempPath(GetAbsolutePath(ws[w].rec, fs).path)
                                         ELSE NoPath]
    /\ UNCHANGED <<log, scanVars, delVars, writeVars, call, hashVars>>

\* writer w writes its next chunk through its handle
Stream(w) ==
    /\ ws[w].pc = "open"
    /\ ws[w].written < MaxChunks
    /\ ws' = [ws EXCEPT ![w].written = @ + 1]
    /\ fs' = IF ws[w].at = NoPath THEN fs
             ELSE [fs EXCEPT ![ws[w].at].content =
                                 WriteAt(@, ws[w].written + 1, 10 * w + ws[w].written + 1),
                             ![ws[w].at].mtime = Now]
    /\ UNCHANGED <<log, scanVars, delVars, writeVars, call, hashVars>>

\* writer w, all chunks written, calls flush_temp_file(rec); the handles
\* of the renamed file follow it, those of the file it replaces lose it
Commit(w) ==
    /\ ws[w].pc = "open"
    /\ ws[w].written = MaxChunks
    /\ LET final == GetAbsolutePath(ws[w].rec, fs).path
           temp == TempPath(final)
           renamed == temp # final /\ Rename(fs, temp, final).ok
       IN  \E r \in FlushTempFileOutcomes(ws[w].rec, fs) :
               /\ fs' = r.tree
               /\ ws' = [v \in Writers |->
                            [ws[v] EXCEPT
                                !.pc = IF v # w THEN @
                                       ELSE IF r.st = "ok" THEN "done" ELSE r.st,
                                !.at = IF ~renamed THEN @
                                       ELSE IF @ = temp THEN final
                                       ELSE IF @ = final THEN NoPath
                                       ELSE @]]
    /\ UNCHANGED <<log, scanVars, delVars, writeVars, call, hashVars>>

TwoPaths == {<<nTxt>>, <<nMd>>, <<nB>>, <<nD, nTxt>>}

TwoFiles == {Root \o <<nTxt>>, Root \o <<nMd>>}

InitTwoWriters ==
    /\ \E F \in SUBSET TwoFiles : fs = MkTree(F, MaxTick)
    /\ log = <<>>
    /\ wrec = NoRec
    /\ InitScanVars
    /\ InitWriteVars
    /\ InitHashVars
    /\ call = NoCall
    /\ \E p1 \in TwoPaths, p2 \in TwoPaths :
          /\ p1 # p2
          /\ ws = [w \in Writers |->
                      [pc |-> "idle",
                       rec |-> RecLive("a", IF w = 1 THEN p1 ELSE p2, w - 1),
                       written |-> 0,
                       at |-> NoPath]]

NextTwoWriters ==
    \/ \E w \in Writers : OpenTemp(w)
    \/ \E w \in Writers : Stream(w)
    \/ \E w \in Writers : Commit(w)

SpecTwoWriters == InitTwoWriters /\ [][NextTwoWriters]_vars

(***************************************************************************)
(* Properties of two writers                                               *)
(***************************************************************************)
\* the final path of writer w
FinalPathOf(w) == Root \o ws[w].rec.path

\* the final path of writer w holds what w streamed, with w's modified_at
HoldsOwn(w) ==
    /\ IsFile(fs, FinalPathOf(w))
    /\ fs[FinalPathOf(w)].content = ContentOf(w)
    /\ fs[FinalPathOf(w)].mtime = ws[w].rec.modified_at * TicksPerSec

\* C18: in every interleaving of two writers with different final paths,
\* a writer whose get_temp_file and flush_temp_file both returned Ok has
\* its own content and its own modified_at at its final path, also when
\* the two file names differ only in their extension
C18_OwnContent == \A w \in DOMAIN ws : ws[w].pc = "done" => HoldsOwn(w)

(***************************************************************************)
(* Properties of a committed write                                         *)
(***************************************************************************)
\* no component of the relative path p ends with the sentinel suffix
NoSentinelIn(p) == \A k \in 1..Len(p) : ~EndsWithSentinel(p[k])

\* after get_temp_file and flush_temp_file both returned Ok:
\* is_local_file_newer of the record is false, and a scan has a live
\* record of the record's path with the record's modified_at
SyncedNotNewer ==
    /\ call.op = "newer" => call.result = "false"
    /\ snapshot.st = "ok" =>
          \E i \in RecordsOf(snapshot, wrec.path) :
              /\ snapshot.files[i].deleted_at = None
              /\ snapshot.files[i].modified_at = wrec.modified_at

\* C19 as stated: for any live record, after a successful get_temp_file
\* and flush_temp_file, is_local_file_newer is false and a scan of the root
\* has a live record of its path with its modified_at
C19_SyncedAnyRecord == wpc = "done" => SyncedNotNewer

\* C19 amended: the same for any live record whose path has no component
\* that ends with the sentinel suffix
C19_Synced == (wpc = "done" /\ NoSentinelIn(wrec.path)) => SyncedNotNewer

\* a file newer than the record was replaced, then found not newer and scanned
C19_Witness ==
    /\ wpc = "done"
    /\ wrec.path = <<nD, nTxt>> /\ wrec.modified_at = 0
    /\ IsFile(fs0, FinalOf(wrec)) /\ fs0[FinalOf(wrec)].mtime > 0
    /\ call.op = "newer" /\ call.result = "false"
    /\ snapshot.st = "ok"

====
